---- MODULE Spec2Model ----
(***************************************************************************)
(* U-Earth: the shared store (geoStore.ts), the animation drivers of the   *)
(* 3D views, and the line rendering of the map views.                      *)
(*                                                                         *)
(* Numbers.  The program computes with IEEE doubles; the model counts in   *)
(* fixed units.  hourOfDay is counted in quarter hours (the step of the    *)
(* hour slider), deltaSeconds in quarter seconds and animationSpeed in     *)
(* whole hours per second, so that deltaSeconds * animationSpeed is again  *)
(* a number of quarter hours.  Latitudes and longitudes are whole degrees. *)
(***************************************************************************)
EXTENDS Integers, Sequences, FiniteSets, TLC

VARIABLES
  hoverCoords,        \* store: GeoCoordinates | null
  selectedPoint,      \* store: GeoCoordinates | null
  activeDrawingView,  \* store: 'globe' | 'mercator' | 'azimuthal' | null
  drawingMode,        \* store: 'none' | 'drawing' | 'pan'
  lines,              \* store: LineSegment[]
  hourOfDay,          \* store: quarter hours
  dayOfYear,          \* store
  dateTime,           \* store: Date
  showSun,            \* store
  views,              \* store: visibility of the five views of the main page
  animationSpeed,     \* store: simulated hours per real second
  isAnimating,        \* store
  page,               \* router: "main" (App) or "flat" (FlatEarthPage)
  viewMode,           \* FlatEarthPage: '3d' | '2d' | 'both'
  globeFrames,        \* Globe3D canvas (frameloop demand): a frame is pending
  frameCount,         \* rendering ticks elapsed
  clocks,             \* the frame clocks of the animation drivers
  canvas,             \* what the last drawing of a path put on a view
  env,                \* the browser: year of its clock and local time zone
  calc,               \* the last evaluation of a function of the utilities
  lastOp,             \* history: name of the last operation
  lastArg,            \* history: its numeric argument
  tickCalls,          \* history: advanceTime calls made by the tick just taken
  tickHours           \* history: quarter hours these calls asked to add

vars == <<hoverCoords, selectedPoint, activeDrawingView, drawingMode, lines,
          hourOfDay, dayOfYear, dateTime, showSun, views, animationSpeed,
          isAnimating, page, viewMode, globeFrames, frameCount, clocks,
          canvas, env, calc,
          lastOp, lastArg, tickCalls, tickHours>>

drawVars  == <<hoverCoords, selectedPoint, activeDrawingView, drawingMode, lines>>
clockVars == <<hourOfDay, dayOfYear>>
appVars   == <<page, viewMode, globeFrames, frameCount>>
tickVars  == <<tickCalls, tickHours>>
envVars   == <<env, calc, clocks>>
timeVars  == <<hourOfDay, dayOfYear, dateTime>>

\* null where an object is expected, and where the name of a view is expected
null == [null |-> TRUE]
nullView == "null"

----------------------------------------------------------------------------
(* Program constants *)

StepsPerHour == 4
HoursPerDay  == 24
DaysPerYear  == 365

DayUnits  == HoursPerDay * StepsPerHour
YearUnits == DaysPerYear * DayUnits

----------------------------------------------------------------------------
(* Inputs *)

\* positions of the hour slider (min 0, max 24, step 0.25), in quarter hours
SliderHours == {0, DayUnits}
\* positions of the day slider (min 1, max 365, step 1) and the presets
SliderDays == {1, DaysPerYear}
\* new Date() at start-up: a time of day, and a day of the year (366 on
\* 31 December of a leap year)
InitHours == {38}
InitDays  == {310, 366}
\* speeds within the range of the speed slider (0.1 .. 87600 hours/second)
Speeds == {1, 6, 730}
\* frame deltas handed to advanceTime, in quarter seconds
Deltas == {-48, 0, 48}

----------------------------------------------------------------------------
(* advanceTime *)

\* Each loop of advanceTime adds or subtracts a constant until its condition
\* fails: it runs n times, the least k after which the condition is false
\* (false after k rounds, true after k - 1).  MaxLoop caps n.
MaxLoop == 400

hourCarryUpOnce(hd) ==
  IF hd[1] >= DayUnits THEN <<hd[1] - DayUnits, hd[2] + 1>> ELSE hd
\* while (newHour >= 24) { newHour -= 24; newDay += 1; }
hourCarryUp(hd) ==
  LET n == CHOOSE k \in 0 .. MaxLoop :
             /\ ~(hd[1] - k * DayUnits >= DayUnits)
             /\ (k = 0 \/ hd[1] - (k - 1) * DayUnits >= DayUnits)
  IN  <<hd[1] - n * DayUnits, hd[2] + n>>

\* while (newHour < 0) { newHour += 24; newDay -= 1; }
hourCarryDown(hd) ==
  LET n == CHOOSE k \in 0 .. MaxLoop :
             /\ ~(hd[1] + k * DayUnits < 0)
             /\ (k = 0 \/ hd[1] + (k - 1) * DayUnits < 0)
  IN  <<hd[1] + n * DayUnits, hd[2] - n>>

\* while (newDay > 365) { newDay -= 365; }
dayWrapDown(hd) ==
  LET n == CHOOSE k \in 0 .. MaxLoop :
             /\ ~(hd[2] - k * DaysPerYear > DaysPerYear)
             /\ (k = 0 \/ hd[2] - (k - 1) * DaysPerYear > DaysPerYear)
  IN  <<hd[1], hd[2] - n * DaysPerYear>>

\* while (newDay < 1) { newDay += 365; }
dayWrapUp(hd) ==
  LET n == CHOOSE k \in 0 .. MaxLoop :
             /\ ~(hd[2] + k * DaysPerYear < 1)
             /\ (k = 0 \/ hd[2] + (k - 1) * DaysPerYear < 1)
  IN  <<hd[1], hd[2] + n * DaysPerYear>>

\* the pair <<newHour, newDay>> that advanceTime stores
advanceTimeResult(hour, day, speed, deltaSeconds) ==
  LET hoursToAdd == deltaSeconds * speed
      newHour    == hour + hoursToAdd
  IN  dayWrapUp(dayWrapDown(hourCarryDown(hourCarryUp(<<newHour, day>>))))

----------------------------------------------------------------------------
(* The store: initial state *)

ViewNames == {"globe", "mercator", "azimuthal", "solarSystem", "sunRays"}

\* Globe3D is mounted (App, views.globe.visible)
globeMounted(pg, vs) == pg = "main" /\ vs["globe"]

\* AnimationController of Globe3D: useEffect(() => invalidate(), [dateTime, showSun])
invalidateGlobe == IF globeMounted(page, views) THEN TRUE ELSE globeFrames

\* nothing drawn yet.  what: "line" or "terminator"; line: the LineSegment
\* drawn; points: the geographic points its path goes through, in order; xs:
\* their projections as far as the drawing code reads them; path: the
\* moveTo / lineTo calls made, k the index of the point of each call
----------------------------------------------------------------------------
(* Dates *)

\* A Date is an instant: the year of its UTC date, the minutes elapsed since
\* 1 January 00:00 UTC of that year, and its seconds beyond the minute.
MinutesPerHour == 60
MinutesPerDay  == HoursPerDay * MinutesPerHour
MinutesPerStep == MinutesPerHour \div StepsPerHour

\* the Gregorian rule, for the years 1901 .. 2099
isLeapYear(year) == year % 4 = 0
daysInYear(year) == IF isLeapYear(year) THEN DaysPerYear + 1 ELSE DaysPerYear
minutesInYear(year) == daysInYear(year) * MinutesPerDay

\* the Date that lies the given minutes after 1 January 00:00 UTC of the year
makeDate(year, minutes, seconds) ==
  IF minutes < 0
    THEN [year |-> year - 1, minutes |-> minutes + minutesInYear(year - 1),
          seconds |-> seconds]
  ELSE IF minutes >= minutesInYear(year)
    THEN [year |-> year + 1, minutes |-> minutes - minutesInYear(year),
          seconds |-> seconds]
  ELSE [year |-> year, minutes |-> minutes, seconds |-> seconds]

\* date.getTime(), in minutes since 1 January 2001 00:00 UTC
getTime(date) ==
  LET years == date.year - 2001
  IN  (years * DaysPerYear + years \div 4) * MinutesPerDay + date.minutes

\* a.getTime() - b.getTime(), in minutes
getTimeDiff(a, b) == getTime(a) - getTime(b)

\* Time zones of the browser: minutes east of UTC in winter and in summer,
\* and the days of the year on which summer time applies.
Zones ==
  { [name |-> "UTC", winter |-> 0, summer |-> 0, summerDays |-> {}],
    [name |-> "Europe/Paris", winter |-> 60, summer |-> 120,
     summerDays |-> 88 .. 297],
    [name |-> "America/New_York", winter |-> 0 - 300, summer |-> 0 - 240,
     summerDays |-> 67 .. 304] }
Years == {2024, 2026}

\* minutes east of UTC of local time at a Date
offsetAt(zone, date) ==
  IF (date.minutes \div MinutesPerDay) + 1 \in zone.summerDays
    THEN zone.summer ELSE zone.winter

\* the Date seen on the local clock, as if that clock were UTC
localClock(zone, date) ==
  makeDate(date.year, date.minutes + offsetAt(zone, date), date.seconds)

\* date.getFullYear()
getFullYear(zone, date) == localClock(zone, date).year
\* date.getHours() + date.getMinutes() / 60, in quarter hours
getHoursAndMinutes(zone, date) ==
  (localClock(zone, date).minutes % MinutesPerDay) \div MinutesPerStep
\* new Date(year, 0, 0): local midnight of 31 December of the year before
localYearStart(zone, year) ==
  makeDate(year, 0 - MinutesPerDay - zone.winter, 0)

\* computeDateTime of the store; year is new Date().getFullYear()
computeDateTime(day, hour, year) ==
  LET utcHours   == hour \div StepsPerHour
      utcMinutes == ((hour % StepsPerHour) * MinutesPerHour) \div StepsPerHour
  IN  makeDate(year, (day - 1) * MinutesPerDay
                       + utcHours * MinutesPerHour + utcMinutes, 0)

\* the initial hourOfDay of the store
initHourOfDay(zone, now) == getHoursAndMinutes(zone, now)
\* the initial dayOfYear of the store
initDayOfYear(zone, now) ==
  getTimeDiff(now, localYearStart(zone, getFullYear(zone, now)))
    \div MinutesPerDay

\* new Date() at start-up: 6 November 2026 08:30:17 UTC and
\* 31 December 2024 08:30:17 UTC, in a browser on Paris time
InitNows == { makeDate(2026, 309 * MinutesPerDay + 510, 17),
              makeDate(2024, 365 * MinutesPerDay + 510, 17) }
InitZones == {z \in Zones : z.name = "Europe/Paris"}

noCalc == [op |-> "none"]

Drivers == {"globe", "solarSystem", "sunRays", "flatEarth"}

\* the clocks of canvases just mounted.  since: the time from the last frame
\* of the driver, or from the mounting of its canvas, to the last rendering
\* tick; paused: the part of it that passed while isAnimating was false;
\* deltas: what the driver handed to advanceTime in the last tick (0 when it
\* made no call); pausedIn: the part of that delta that passed while
\* isAnimating was false
newClocks ==
  [since    |-> [d \in Drivers |-> 0], paused   |-> [d \in Drivers |-> 0],
   deltas   |-> [d \in Drivers |-> 0], pausedIn |-> [d \in Drivers |-> 0]]

noCanvas ==
  [view |-> nullView, what |-> "none", line |-> null, points |-> <<>>,
   xs |-> <<>>, path |-> <<>>]

\* the store as created in a browser of one of the zones
InitStoreIn(zones) ==
  /\ hoverCoords = null
  /\ selectedPoint = null
  /\ activeDrawingView = nullView
  /\ drawingMode = "pan"
  /\ lines = <<>>
  /\ env \in [year : Years, zone : zones]
  /\ dateTime \in InitNows
  /\ env.year = getFullYear(env.zone, dateTime)
  /\ hourOfDay = initHourOfDay(env.zone, dateTime)
  /\ dayOfYear = initDayOfYear(env.zone, dateTime)
  /\ showSun = TRUE
  /\ views = [v \in ViewNames |-> TRUE]
  /\ animationSpeed = 1
  /\ isAnimating = FALSE

InitStore ==
  /\ InitStoreIn(InitZones)
  /\ hourOfDay \in InitHours
  /\ dayOfYear \in InitDays

InitApp ==
  /\ page = "main"
  /\ viewMode = "both"
  /\ globeFrames = TRUE
  /\ frameCount = 0
  /\ clocks = newClocks
  /\ canvas = noCanvas
  /\ calc = noCalc
  /\ lastOp = "init"
  /\ lastArg = 0
  /\ tickCalls = 0
  /\ tickHours = 0

Init == InitStore /\ InitApp

----------------------------------------------------------------------------
(* The store: time controls and animation *)

setHourOfDay(hour) ==
  /\ hourOfDay' = hour
  /\ dateTime' = computeDateTime(dayOfYear, hour, env.year)
  /\ globeFrames' = invalidateGlobe
  /\ lastOp' = "setHourOfDay"
  /\ lastArg' = hour
  /\ UNCHANGED <<drawVars, dayOfYear, showSun, envVars, views, animationSpeed,
                 isAnimating, page, viewMode, frameCount, canvas, tickVars>>

setDayOfYear(day) ==
  /\ dayOfYear' = day
  /\ dateTime' = computeDateTime(day, hourOfDay, env.year)
  /\ globeFrames' = invalidateGlobe
  /\ lastOp' = "setDayOfYear"
  /\ lastArg' = day
  /\ UNCHANGED <<drawVars, hourOfDay, showSun, envVars, views, animationSpeed,
                 isAnimating, page, viewMode, frameCount, canvas, tickVars>>

setAnimationSpeed(speed) ==
  /\ animationSpeed' = speed
  /\ lastOp' = "setAnimationSpeed"
  /\ lastArg' = speed
  /\ tickCalls' = 0
  /\ tickHours' = 0
  /\ UNCHANGED <<drawVars, timeVars, showSun, envVars, views, isAnimating,
                 appVars, canvas>>

toggleAnimation ==
  /\ isAnimating' = ~isAnimating
  /\ lastOp' = "toggleAnimation"
  /\ lastArg' = 0
  /\ tickCalls' = 0
  /\ tickHours' = 0
  /\ UNCHANGED <<drawVars, timeVars, showSun, envVars, views, animationSpeed,
                 appVars, canvas>>

advanceTime(deltaSeconds) ==
  LET r == advanceTimeResult(hourOfDay, dayOfYear, animationSpeed, deltaSeconds)
  IN  /\ hourOfDay' = r[1]
      /\ dayOfYear' = r[2]
      /\ dateTime' = computeDateTime(r[2], r[1], env.year)
      /\ globeFrames' = invalidateGlobe
      /\ lastOp' = "advanceTime"
      /\ lastArg' = deltaSeconds
      /\ UNCHANGED <<drawVars, showSun, envVars, views, animationSpeed,
                     isAnimating, page, viewMode, frameCount, canvas,
                     tickVars>>

\* the clock of the store driven through its interface
NextClock ==
  \/ \E hour \in SliderHours : setHourOfDay(hour)
  \/ \E day \in SliderDays : setDayOfYear(day)
  \/ \E speed \in Speeds : setAnimationSpeed(speed)
  \/ \E deltaSeconds \in Deltas : advanceTime(deltaSeconds)

SpecClock == Init /\ [][NextClock]_vars

----------------------------------------------------------------------------
(* Claims about the clock *)

Mod(a, m) == ((a % m) + m) % m

\* simulated time in quarter hours since the start of day 1
clockTotal(hour, day) == (day - 1) * DayUnits + hour

\* C1: in every reachable state of the store hourOfDay lies in [0,24) and
\* dayOfYear is an integer in 1..365.
C1_ClockInRange ==
  /\ hourOfDay \in 0 .. (DayUnits - 1)
  /\ dayOfYear \in 1 .. DaysPerYear

\* C2: advanceTime conserves simulated time: the new day and hour stand for
\* the old day and hour plus deltaSeconds * animationSpeed, modulo a year of
\* 365 days, with the new hour in [0,24) and the new day in 1..365.
C2_AdvanceConserves ==
  [][\A deltaSeconds \in Deltas :
       advanceTime(deltaSeconds) =>
         /\ Mod(clockTotal(hourOfDay', dayOfYear'), YearUnits)
              = Mod(clockTotal(hourOfDay, dayOfYear)
                      + deltaSeconds * animationSpeed, YearUnits)
         /\ hourOfDay' \in 0 .. (DayUnits - 1)
         /\ dayOfYear' \in 1 .. DaysPerYear]_vars

\* an advance backwards by a whole year (730 hours/second during 12 seconds)
\* has been made
C2_Witness ==
  /\ lastOp = "advanceTime"
  /\ lastArg = -48
  /\ animationSpeed = 730
  /\ C1_ClockInRange

\* C3: advanceTime(0) leaves hourOfDay and dayOfYear unchanged in every
\* reachable state.
C3_ZeroDeltaIdentity ==
  [][advanceTime(0) => UNCHANGED clockVars]_vars

\* C11: in every reachable state of the store, dateTime is
\* computeDateTime(dayOfYear, hourOfDay), so that the views reading dateTime
\* and the views reading dayOfYear and hourOfDay show the same instant.
C11_DateTimeFollowsClock ==
  dateTime = computeDateTime(dayOfYear, hourOfDay, env.year)

----------------------------------------------------------------------------
(* Geometry: solarCalculations.ts in fixed point *)

\* Angles are whole numbers of half degrees; sines and cosines are scaled by
\* Scale.  SinTable[k + 1] is Math.sin of k half degrees, k = 0 .. 180.
Scale == 10000
SinTable ==
  <<
     0, 87, 175, 262, 349, 436, 523, 610, 698, 785,
     872, 958, 1045, 1132, 1219, 1305, 1392, 1478, 1564, 1650,
     1736, 1822, 1908, 1994, 2079, 2164, 2250, 2334, 2419, 2504,
     2588, 2672, 2756, 2840, 2924, 3007, 3090, 3173, 3256, 3338,
     3420, 3502, 3584, 3665, 3746, 3827, 3907, 3987, 4067, 4147,
     4226, 4305, 4384, 4462, 4540, 4617, 4695, 4772, 4848, 4924,
     5000, 5075, 5150, 5225, 5299, 5373, 5446, 5519, 5592, 5664,
     5736, 5807, 5878, 5948, 6018, 6088, 6157, 6225, 6293, 6361,
     6428, 6494, 6561, 6626, 6691, 6756, 6820, 6884, 6947, 7009,
     7071, 7133, 7193, 7254, 7314, 7373, 7431, 7490, 7547, 7604,
     7660, 7716, 7771, 7826, 7880, 7934, 7986, 8039, 8090, 8141,
     8192, 8241, 8290, 8339, 8387, 8434, 8480, 8526, 8572, 8616,
     8660, 8704, 8746, 8788, 8829, 8870, 8910, 8949, 8988, 9026,
     9063, 9100, 9135, 9171, 9205, 9239, 9272, 9304, 9336, 9367,
     9397, 9426, 9455, 9483, 9511, 9537, 9563, 9588, 9613, 9636,
     9659, 9681, 9703, 9724, 9744, 9763, 9781, 9799, 9816, 9833,
     9848, 9863, 9877, 9890, 9903, 9914, 9925, 9936, 9945, 9954,
     9962, 9969, 9976, 9981, 9986, 9990, 9994, 9997, 9998, 10000,
     10000
  >>

\* Math.sin of h half degrees
sinHalfDeg(h) ==
  LET m == Mod(h, 720)
  IN  IF m <= 180 THEN SinTable[m + 1]
      ELSE IF m <= 360 THEN SinTable[360 - m + 1]
      ELSE IF m <= 540 THEN 0 - SinTable[m - 360 + 1]
      ELSE 0 - SinTable[720 - m + 1]

\* Math.cos of h half degrees
cosHalfDeg(h) == sinHalfDeg(h + 180)

EarthRadiusKm == 6371
PiScaled == 31416
\* metres on the sphere per degree of arc: R * (Math.PI / 180)
MetresPerDegree == (EarthRadiusKm * PiScaled) \div 1800

\* the a of haversineDistance with the cosine of the start latitude twice
haversineAStartOnly(start, end) ==
  LET sinDLat == sinHalfDeg(end.lat - start.lat)
      sinDLon == sinHalfDeg(end.lon - start.lon)
      cosLat1 == cosHalfDeg(2 * start.lat)
  IN  sinDLat * sinDLat
        + ((cosLat1 * cosLat1) \div Scale) * ((sinDLon * sinDLon) \div Scale)

\* the a of haversineDistance, scaled by Scale * Scale
haversineA(start, end) ==
  LET sinDLat == sinHalfDeg(end.lat - start.lat)
      sinDLon == sinHalfDeg(end.lon - start.lon)
      cosLat1 == cosHalfDeg(2 * start.lat)
      cosLat2 == cosHalfDeg(2 * end.lat)
  IN  sinDLat * sinDLat
        + ((cosLat1 * cosLat2) \div Scale) * ((sinDLon * sinDLon) \div Scale)

\* the square of SinTable[k + 1]
sinSquared(k) == SinTable[k + 1] * SinTable[k + 1]

\* c = 2 * atan2(sqrt(a), sqrt(1 - a)) in whole degrees: twice the angle
\* whose sine squared is a, to the nearest half degree
haversineC(a) ==
  CHOOSE k \in 0 .. 180 :
    /\ (k = 0 \/ sinSquared(k - 1) + sinSquared(k) <= 2 * a)
    /\ (k = 180 \/ sinSquared(k) + sinSquared(k + 1) > 2 * a)

\* R * c, in km
haversineDistance(start, end) ==
  (haversineC(haversineA(start, end)) * MetresPerDegree) \div 1000

----------------------------------------------------------------------------
(* The pages, the mounted views and their animation drivers *)

\* the views of the main page that the view buttons of the control panel toggle
toggleViewVisibility(view) ==
  /\ page = "main"
  /\ views' = [views EXCEPT ![view] = ~@]
  /\ globeFrames' = IF view = "globe" /\ ~views["globe"] THEN TRUE ELSE globeFrames
  /\ clocks' = IF view \in Drivers
                 THEN [clocks EXCEPT !.since[view] = 0, !.paused[view] = 0]
                 ELSE clocks
  /\ lastOp' = "toggleViewVisibility"
  /\ lastArg' = 0
  /\ UNCHANGED <<drawVars, timeVars, showSun, env, calc, animationSpeed,
                 isAnimating, page, viewMode, frameCount, canvas>>
  /\ tickCalls' = 0
  /\ tickHours' = 0

\* the links between the two routes; FlatEarthPage starts with viewMode 'both',
\* a Globe3D that mounts renders a first frame
navigate(pg) ==
  /\ pg # page
  /\ page' = pg
  /\ viewMode' = "both"
  /\ globeFrames' = IF globeMounted(pg, views) THEN TRUE ELSE globeFrames
  /\ clocks' = [clocks EXCEPT !.since = [d \in Drivers |-> 0],
                              !.paused = [d \in Drivers |-> 0]]
  /\ lastOp' = "navigate"
  /\ lastArg' = 0
  /\ UNCHANGED <<drawVars, timeVars, showSun, env, calc, views,
                 animationSpeed, isAnimating, frameCount, canvas>>
  /\ tickCalls' = 0
  /\ tickHours' = 0

ViewModes == {"3d", "2d", "both"}

setViewMode(mode) ==
  /\ page = "flat"
  /\ viewMode' = mode
  /\ lastOp' = "setViewMode"
  /\ lastArg' = 0
  /\ UNCHANGED <<drawVars, timeVars, showSun, envVars, views, animationSpeed,
                 isAnimating, page, globeFrames, frameCount, canvas>>
  /\ tickCalls' = 0
  /\ tickHours' = 0

\* the user turns the globe (OrbitControls): its canvas asks for a frame
orbitGlobe ==
  /\ globeMounted(page, views)
  /\ ~globeFrames
  /\ globeFrames' = TRUE
  /\ lastOp' = "orbitGlobe"
  /\ lastArg' = 0
  /\ UNCHANGED <<drawVars, timeVars, showSun, envVars, views, animationSpeed,
                 isAnimating, page, viewMode, frameCount, canvas>>
  /\ tickCalls' = 0
  /\ tickHours' = 0

\* the useFrame callback of the driver runs in this tick: its canvas is
\* mounted and renders a frame
driverRuns(driver) ==
  CASE driver = "globe"       -> globeMounted(page, views) /\ globeFrames
    [] driver = "solarSystem" -> page = "main" /\ views["solarSystem"]
    [] driver = "sunRays"     -> page = "main" /\ views["sunRays"]
    [] driver = "flatEarth"   -> page = "flat" /\ viewMode \in {"3d", "both"}

\* the useFrame callback of the driver calls advanceTime(delta)
driverCalls(driver, delta) ==
  /\ driverRuns(driver)
  /\ isAnimating
  /\ (driver # "globe" => delta > 0)

RECURSIVE advanceTimes(_, _, _, _)
\* n calls of advanceTime(deltaSeconds), one after the other
advanceTimes(hd, speed, deltaSeconds, n) ==
  IF n = 0 THEN hd
  ELSE advanceTimes(advanceTimeResult(hd[1], hd[2], speed, deltaSeconds),
                    speed, deltaSeconds, n - 1)

\* frame deltas of a rendering tick, in quarter seconds
TickDeltas == {1, 4}
MaxTicks == 2

\* one rendering tick: every mounted canvas that has a frame to render runs
\* its useFrame callbacks with the time elapsed since its last frame
Tick(delta) ==
  LET calling == {driver \in Drivers : driverCalls(driver, delta)}
      n == Cardinality(calling)
      r == advanceTimes(<<hourOfDay, dayOfYear>>, animationSpeed, delta, n)
  IN  /\ frameCount < MaxTicks
      /\ frameCount' = frameCount + 1
      /\ hourOfDay' = r[1]
      /\ dayOfYear' = r[2]
      /\ dateTime' = IF n = 0 THEN dateTime
                     ELSE computeDateTime(r[2], r[1], env.year)
      /\ globeFrames' = IF globeMounted(page, views) THEN n > 0 ELSE globeFrames
      /\ tickCalls' = n
      /\ tickHours' = n * delta * animationSpeed
      /\ lastOp' = "tick"
      /\ lastArg' = delta
      /\ UNCHANGED <<drawVars, showSun, envVars, views, animationSpeed,
                     isAnimating, page, viewMode, canvas>>

NextAnim ==
  \/ \E view \in ViewNames : toggleViewVisibility(view)
  \/ \E pg \in {"main", "flat"} : navigate(pg)
  \/ \E mode \in ViewModes : setViewMode(mode)
  \/ toggleAnimation
  \/ orbitGlobe
  \/ \E speed \in Speeds : setAnimationSpeed(speed)
  \/ \E delta \in TickDeltas : Tick(delta)

SpecAnim == Init /\ [][NextAnim]_vars

----------------------------------------------------------------------------
(* Claims about the animation drivers *)

\* C4: during one rendering tick while isAnimating is true, advanceTime is
\* invoked by at most one animation driver, so that the clock advances by
\* exactly deltaSeconds * animationSpeed whatever set of views is mounted.
C4_OneDriverPerTick ==
  (lastOp = "tick" /\ isAnimating) =>
    /\ tickCalls <= 1
    /\ (tickCalls = 1 => tickHours = lastArg * animationSpeed)

\* C5: whenever isAnimating is true, every rendering tick leads to a call of
\* advanceTime, for every combination of visible views and every viewMode of
\* the flat-earth page.
C5_TickAdvances ==
  (lastOp = "tick" /\ isAnimating) => tickCalls >= 1

----------------------------------------------------------------------------
(* Rendering: the path of a line in each view *)

NumPoints == 100

\* the point number i of the numPoints + 1 points spaced evenly from start to
\* end along the straight line of a space: the plane of the Mercator
\* projection, the plane of the azimuthal projection, or ("sphere") the great
\* circle.  It stands for the latitude and longitude the code computes.
samplePoint(space, line, i) ==
  [space |-> space, start |-> line.start, end |-> line.end, i |-> i,
   numPoints |-> NumPoints]

\* the coordinate { lat: NaN, lon: NaN }
nanPoint == [nan |-> TRUE]

\* greatCirclePoints, const d: the angle between start and end at the centre
\* of the sphere, in whole degrees
angularDistance(start, end) == haversineC(haversineA(start, end))

\* greatCirclePoints(line.start, line.end, 100); with d = 0 the factors A
\* and B are 0 / 0 and every coordinate is NaN
greatCirclePoints(line) ==
  IF angularDistance(line.start, line.end) = 0
    THEN [k \in 1 .. NumPoints + 1 |-> nanPoint]
    ELSE [k \in 1 .. NumPoints + 1 |-> samplePoint("sphere", line, k - 1)]

\* for (let i = 0; i <= 100; i++) { t = i / 100; ... proj.invert([x, y]) }
planePoints(space, line) ==
  [k \in 1 .. NumPoints + 1 |-> samplePoint(space, line, k - 1)]

\* drawLines of MapProjection, the points of a line of another view
mapLinePoints(line) ==
  CASE line.sourceView = "globe"     -> greatCirclePoints(line)
    [] line.sourceView = "azimuthal" -> planePoints("azimuthal", line)
    [] line.sourceView = "mercator"  -> planePoints("mercator", line)
    [] OTHER                         -> <<>>

\* DrawnLine of Globe3D, pathPoints
globeLinePoints(line) ==
  CASE line.sourceView = "globe"     -> greatCirclePoints(line)
    [] line.sourceView = "azimuthal" -> planePoints("azimuthal", line)
    [] line.sourceView = "mercator"  -> planePoints("mercator", line)
    [] OTHER                         -> greatCirclePoints(line)

\* size of the container of a map, in pixels
Width  == 800
Height == 600
\* zoom of a map that was not zoomed (its offset is 0)
InitialZoom == 1
\* FlatEarth2DView
BaseSize == 800
EarthRadiusPx == 350

Abs(x) == IF x < 0 THEN 0 - x ELSE x
Min(a, b) == IF a < b THEN a ELSE b

\* geoMercator().scale(width / (2 * Math.PI) * zoom).translate([width / 2, ..]):
\* projected[0] of a longitude
mercatorX(lon) == Width \div 2 + (InitialZoom * Width * lon) \div 360

\* geoAzimuthalEquidistant().scale(Math.min(width, height) / 4 * zoom)
\* .rotate([0, -90]): projected[0]
azimuthalX(coords) ==
  LET scale == (Min(Width, Height) \div 4) * InitialZoom
      r     == (scale * (90 - coords.lat) * PiScaled) \div (180 * Scale)
  IN  Width \div 2 + (r * sinHalfDeg(2 * coords.lon)) \div Scale

\* latLonTo2D(lat, lon).x
latLonTo2DX(coords) ==
  LET r == ((90 - coords.lat) * EarthRadiusPx) \div 180
  IN  BaseSize \div 2 + (r * sinHalfDeg(2 * coords.lon)) \div Scale

\* a projected point as the drawing code reads it: its x, and whether its
\* coordinates are finite numbers ("finite"), x finite and y infinite
\* ("infiniteY"), or both NaN ("nan")
projectedPoint(x, kind) == [x |-> x, kind |-> kind]

\* projection([lon, lat]) of a view, for whole degrees
project(view, coords) ==
  CASE view = "mercator"    -> projectedPoint(mercatorX(coords.lon), "finite")
    [] view = "azimuthal"   -> projectedPoint(azimuthalX(coords), "finite")
    [] view = "flatEarth2D" -> projectedPoint(latLonTo2DX(coords), "finite")

\* Math.abs(projected[0] - lastProjected[0]) > width, never true of a NaN
wrapAroundFullWidth(projected, lastProjected, width) ==
  /\ lastProjected # null
  /\ projected.kind # "nan" /\ lastProjected.kind # "nan"
  /\ Abs(projected.x - lastProjected.x) > width

\* lastProjected && Math.abs(projected[0] - lastProjected[0]) > width / 2
wrapAround(projected, lastProjected, width) ==
  /\ lastProjected # null
  /\ projected.kind # "nan" /\ lastProjected.kind # "nan"
  /\ 2 * Abs(projected.x - lastProjected.x) > width

\* projected && isFinite(projected[0]) && isFinite(projected[1])
drawableLinePoint(projected) == projected # null /\ projected.kind = "finite"

\* if (projected)
drawableTerminatorPoint(projected) == projected # null

\* The drawing loop keeps started and lastProjected: both are set by every
\* point that passes the test of the loop, so that at such a point
\* lastProjected is the point that passed before it (null at the first one),
\* and started is false exactly when lastProjected is null or the wrap-around
\* test has just reset it.

\* the numbers of the points that pass the test of the loop, in order
passing(pts, terminator) ==
  LET passes(k) == IF terminator THEN drawableTerminatorPoint(pts[k])
                   ELSE drawableLinePoint(pts[k])
  IN  SelectSeq([k \in 1 .. Len(pts) |-> k], passes)

\* the body of the loop for point number k, which passed the test: the call
\* it makes
strokeStep(projected, lastProjected, k, width) ==
  LET started == lastProjected # null /\ ~wrapAround(projected, lastProjected, width)
  IN  [op |-> IF started THEN "lineTo" ELSE "moveTo", k |-> k]

\* let started = false; let lastProjected = null; for (...) {...}: the calls
\* made, in the order of the points
strokePath(pts, terminator, width) ==
  LET ks == passing(pts, terminator)
  IN  [n \in 1 .. Len(ks) |->
         strokeStep(pts[ks[n]], IF n = 1 THEN null ELSE pts[ks[n - 1]],
                    ks[n], width)]

----------------------------------------------------------------------------
(* The store: hover, drawing mode and the drawn lines *)

GeoCoordinates(lat, lon) == [lat |-> lat, lon |-> lon]

\* Color palette for lines
LINE_COLORS ==
  <<"#06b6d4", "#8b5cf6", "#ec4899", "#f59e0b", "#10b981",
    "#ef4444", "#3b82f6", "#f97316", "#14b8a6", "#a855f7">>

\* generateId(): Math.random() in base 36; two calls may return the same id
Ids == {"k3x9q1a", "p07zmc4"}

\* what the click handlers of the views hand to addLine: the two clicked
\* points, the view clicked in and a colour of the view's choosing
LineArgs ==
  { [start |-> GeoCoordinates(49, 2), end |-> GeoCoordinates(41, -74),
     sourceView |-> "globe", color |-> "#8b5cf6"],
    [start |-> GeoCoordinates(60, 170), end |-> GeoCoordinates(60, -170),
     sourceView |-> "mercator", color |-> "#06b6d4"],
    [start |-> GeoCoordinates(0, 0), end |-> GeoCoordinates(0, 90),
     sourceView |-> "azimuthal", color |-> "#06b6d4"] }

HoverInputs == {null, GeoCoordinates(49, 2)}
\* the modes the mode buttons set
DrawingModes == {"drawing", "pan"}
MaxLines == 2

setHoverCoords(coords) ==
  /\ hoverCoords' = coords
  /\ lastOp' = "setHoverCoords"
  /\ lastArg' = 0
  /\ UNCHANGED <<selectedPoint, activeDrawingView, drawingMode, lines,
                 timeVars, showSun, envVars, views, animationSpeed,
                 isAnimating, appVars, canvas, tickVars>>

\* a setDrawingMode that keeps the pending point
setDrawingModeOnly(mode) ==
  /\ drawingMode' = mode
  /\ lastOp' = "setDrawingMode"
  /\ lastArg' = 0
  /\ UNCHANGED <<hoverCoords, selectedPoint, activeDrawingView, lines,
                 timeVars, showSun, envVars, views, animationSpeed,
                 isAnimating, appVars, canvas, tickVars>>

setDrawingMode(mode) ==
  /\ drawingMode' = mode
  /\ selectedPoint' = null
  /\ activeDrawingView' = nullView
  /\ lastOp' = "setDrawingMode"
  /\ lastArg' = 0
  /\ UNCHANGED <<hoverCoords, lines, timeVars, showSun, envVars, views,
                 animationSpeed, isAnimating, appVars, canvas, tickVars>>

\* the element of addLine with the distance measured for the lines of the
\* globe only
newLineGlobeOnly(line, id) ==
  [start |-> line.start, end |-> line.end, sourceView |-> line.sourceView,
   color |-> LINE_COLORS[(Len(lines) % Len(LINE_COLORS)) + 1],
   id |-> id,
   distance |-> IF line.sourceView = "globe"
                THEN haversineDistance(line.start, line.end) ELSE 0]

\* the element of addLine with the colour the caller passed
newLineCallerColor(line, id) ==
  [start |-> line.start, end |-> line.end, sourceView |-> line.sourceView,
   color |-> line.color,
   id |-> id,
   distance |-> haversineDistance(line.start, line.end)]

\* the element addLine appends: the caller's fields, then color, id and
\* distance written over them
newLine(line, id) ==
  [start |-> line.start, end |-> line.end, sourceView |-> line.sourceView,
   color |-> LINE_COLORS[(Len(lines) % Len(LINE_COLORS)) + 1],
   id |-> id,
   distance |-> haversineDistance(line.start, line.end)]

\* id is the value generateId() returns
addLine(line, id) ==
  /\ lines' = Append(lines, newLine(line, id))
  /\ selectedPoint' = null
  /\ activeDrawingView' = nullView
  /\ lastOp' = "addLine"
  /\ lastArg' = 0
  /\ UNCHANGED <<hoverCoords, drawingMode, timeVars, showSun, envVars, views,
                 animationSpeed, isAnimating, appVars, canvas, tickVars>>

\* a filter that colours the remaining lines again by their new position
filterLinesRecolor(ls, id) ==
  LET kept == SelectSeq(ls, LAMBDA l : l.id # id)
  IN  [i \in 1 .. Len(kept) |->
         [kept[i] EXCEPT !.color = LINE_COLORS[((i - 1) % Len(LINE_COLORS)) + 1]]]

\* lines.filter((l) => l.id !== id)
filterLines(ls, id) == SelectSeq(ls, LAMBDA l : l.id # id)

removeLine(id) ==
  /\ lines' = filterLines(lines, id)
  /\ lastOp' = "removeLine"
  /\ lastArg' = 0
  /\ UNCHANGED <<hoverCoords, selectedPoint, activeDrawingView, drawingMode,
                 timeVars, showSun, envVars, views, animationSpeed,
                 isAnimating, appVars, canvas, tickVars>>

clearLines ==
  /\ lines' = <<>>
  /\ lastOp' = "clearLines"
  /\ lastArg' = 0
  /\ UNCHANGED <<hoverCoords, selectedPoint, activeDrawingView, drawingMode,
                 timeVars, showSun, envVars, views, animationSpeed,
                 isAnimating, appVars, canvas, tickVars>>

\* the store driven through its line actions and, beside them, its hover,
\* mode, view and time actions (the time action with a frame delta of
\* one simulated year)
NextLines ==
  \/ \E line \in LineArgs, id \in Ids :
       addLine(line, id) /\ Len(lines') <= MaxLines
  \/ \E id \in Ids : removeLine(id)
  \/ clearLines
  \/ \E coords \in HoverInputs : setHoverCoords(coords)
  \/ \E mode \in DrawingModes : setDrawingMode(mode)
  \/ \E view \in {"mercator"} : toggleViewVisibility(view)
  \/ \E deltaSeconds \in {YearUnits} : advanceTime(deltaSeconds)

SpecLines == Init /\ [][NextLines]_vars

----------------------------------------------------------------------------
(* Claims about the drawn lines *)

\* C6: every line of the list carries distance = haversineDistance(start,
\* end), whatever its sourceView.
C6_DistanceIsHaversine ==
  \A i \in 1 .. Len(lines) :
    lines[i].distance = haversineDistance(lines[i].start, lines[i].end)

\* two lines drawn in different views are in the list, both of them with a
\* length that is not zero
C6_Witness ==
  /\ Len(lines) = 2
  /\ lines[1].sourceView = "mercator"
  /\ lines[2].sourceView = "azimuthal"
  /\ lines[1].distance > 1000
  /\ lines[2].distance > 10000

\* the sequences obtained from s by deleting elements
RECURSIVE subsequences(_)
subsequences(s) ==
  IF s = <<>> THEN {<<>>}
  ELSE LET rest == subsequences(Tail(s))
       IN  rest \cup {<<Head(s)>> \o t : t \in rest}

lineActions == {"addLine", "removeLine", "clearLines"}

\* C7: lines are immutable once in the list: addLine appends one element to
\* an unchanged list, removeLine and clearLines only delete elements and keep
\* the relative order of the others, and no other action of the store (time,
\* mode, hover, view settings) alters the list.
C7_LinesFrame ==
  [][/\ lastOp' = "addLine" =>
          /\ Len(lines') = Len(lines) + 1
          /\ SubSeq(lines', 1, Len(lines)) = lines
     /\ lastOp' \in {"removeLine", "clearLines"} =>
          lines' \in subsequences(lines)
     /\ lastOp' \notin lineActions => lines' = lines]_vars

\* a line has been removed from in front of another one, which stays
C7_Witness ==
  /\ lastOp = "removeLine"
  /\ Len(lines) = 1
  /\ lines[1].color = LINE_COLORS[2]

----------------------------------------------------------------------------
(* Rendering: the views draw a line *)

\* projected[0] of the samples of a line in another view, k = 1 .. 101, as
\* the projection of the view may give them: running across the map, or
\* leaving it at the right edge and coming back at the left one
XProfiles == {"across", "seam"}
xProfile(profile, k) ==
  IF profile = "across" THEN 100 + 6 * (k - 1)
  ELSE IF k <= 51 THEN 698 + 2 * k ELSE 2 * (k - 51)

\* a segment between the two projected endpoints, with a new sub-path at the
\* second one when it is more than half the width away
sameViewPathSplit(view, line) ==
  strokePath(<<project(view, line.start), project(view, line.end)>>, FALSE, Width)

\* ctx.moveTo(startProjected...); ctx.lineTo(endProjected...)
sameViewPath(view, line) ==
  <<[op |-> "moveTo", k |-> 1], [op |-> "lineTo", k |-> 2]>>

\* one round of the loop of drawLines in the map `view`, for lines[i]
drawLine2D(view, i, profile) ==
  LET line == lines[i]
      pts  == mapLinePoints(line)
      xs   == [k \in 1 .. Len(pts) |-> projectedPoint(xProfile(profile, k), "finite")]
  IN  /\ page = "main" /\ views[view]
      /\ i \in 1 .. Len(lines)
      /\ canvas' =
           IF line.sourceView = view
           THEN [view |-> view, what |-> "line", line |-> line,
                 points |-> <<line.start, line.end>>,
                 xs |-> <<project(view, line.start), project(view, line.end)>>,
                 path |-> sameViewPath(view, line)]
           ELSE [view |-> view, what |-> "line", line |-> line,
                 points |-> pts, xs |-> xs,
                 path |-> strokePath(xs, FALSE, Width)]
      /\ lastOp' = "drawLine2D"
      /\ lastArg' = i
      /\ UNCHANGED <<drawVars, timeVars, showSun, envVars, views,
                     animationSpeed, isAnimating, appVars, tickVars>>

\* DrawnLine of Globe3D for lines[i]: a polyline through the points
drawLineGlobe(i) ==
  LET line == lines[i]
      pts  == globeLinePoints(line)
  IN  /\ globeMounted(page, views)
      /\ i \in 1 .. Len(lines)
      /\ canvas' = [view |-> "globe", what |-> "line", line |-> line,
                    points |-> pts, xs |-> <<>>,
                    path |-> [k \in 1 .. Len(pts) |->
                                [op |-> IF k = 1 THEN "moveTo" ELSE "lineTo",
                                 k |-> k]]]
      /\ lastOp' = "drawLineGlobe"
      /\ lastArg' = i
      /\ UNCHANGED <<drawVars, timeVars, showSun, envVars, views,
                     animationSpeed, isAnimating, appVars, tickVars>>

\* FlatEarth2DView for lines[i]: <line x1 y1 x2 y2>
drawLineFlat(i) ==
  LET line == lines[i]
  IN  /\ page = "flat" /\ viewMode \in {"2d", "both"}
      /\ i \in 1 .. Len(lines)
      /\ canvas' = [view |-> "flatEarth2D", what |-> "line", line |-> line,
                    points |-> <<line.start, line.end>>,
                    xs |-> <<project("flatEarth2D", line.start),
                             project("flatEarth2D", line.end)>>,
                    path |-> <<[op |-> "moveTo", k |-> 1],
                               [op |-> "lineTo", k |-> 2]>>]
      /\ lastOp' = "drawLineFlat"
      /\ lastArg' = i
      /\ UNCHANGED <<drawVars, timeVars, showSun, envVars, views,
                     animationSpeed, isAnimating, appVars, tickVars>>

\* lines are drawn in a view of the main page, then rendered by the views of
\* both pages
NextRender ==
  \/ \E line \in LineArgs, id \in Ids :
       addLine(line, id) /\ Len(lines') <= MaxLines
  \/ \E pg \in {"main", "flat"} : navigate(pg)
  \/ \E mode \in ViewModes : setViewMode(mode)
  \/ \E view \in {"mercator", "azimuthal"}, i \in 1 .. MaxLines,
        profile \in XProfiles : drawLine2D(view, i, profile)
  \/ \E i \in 1 .. MaxLines : drawLineGlobe(i)
  \/ \E i \in 1 .. MaxLines : drawLineFlat(i)

SpecRender == Init /\ [][NextRender]_vars

----------------------------------------------------------------------------
(* Rendering: the drawing loops on given projected points *)

\* projected points: null, NaN, a point of Mercator with y infinite, and
\* points left, middle and right on a map of width Width
PointValues ==
  {null, projectedPoint(0, "nan"), projectedPoint(800, "infiniteY"),
   projectedPoint(0, "finite"), projectedPoint(400, "finite"),
   projectedPoint(401, "finite"), projectedPoint(800, "finite")}
MaxPoints == 3
PointSeqs == UNION {[1 .. n -> PointValues] : n \in 1 .. MaxPoints}

\* the loop of drawLines over the projected points of a reprojected line, on
\* a canvas just cleared
strokeLinePoints(pts) ==
  /\ canvas = noCanvas
  /\ canvas' = [view |-> "mercator", what |-> "line", line |-> null,
                points |-> <<>>, xs |-> pts,
                path |-> strokePath(pts, FALSE, Width)]
  /\ lastOp' = "strokeLinePoints"
  /\ lastArg' = Len(pts)
  /\ UNCHANGED <<drawVars, timeVars, showSun, envVars, views, animationSpeed,
                 isAnimating, appVars, tickVars>>

\* the loop of draw over the projected points of the terminator
strokeTerminator(pts) ==
  /\ canvas = noCanvas
  /\ canvas' = [view |-> "mercator", what |-> "terminator", line |-> null,
                points |-> <<>>, xs |-> pts,
                path |-> strokePath(pts, TRUE, Width)]
  /\ lastOp' = "strokeTerminator"
  /\ lastArg' = Len(pts)
  /\ UNCHANGED <<drawVars, timeVars, showSun, envVars, views, animationSpeed,
                 isAnimating, appVars, tickVars>>

NextPath ==
  \/ \E pts \in PointSeqs : strokeLinePoints(pts)
  \/ \E pts \in PointSeqs : strokeTerminator(pts)

SpecPath == Init /\ [][NextPath]_vars

----------------------------------------------------------------------------
(* Claims about the rendering of lines *)

\* the projection a view draws in
viewProjection(view) ==
  CASE view = "globe"       -> "globe"
    [] view = "mercator"    -> "mercator"
    [] view = "azimuthal"   -> "azimuthal"
    [] view = "flatEarth2D" -> "azimuthal"

\* the 101 points taken evenly along a line as drawn in its source space
sourceSamples(line) ==
  [k \in 1 .. 101 |->
     samplePoint(IF line.sourceView = "globe" THEN "sphere" ELSE line.sourceView,
                 line, k - 1)]

\* C8: for every line and every view whose projection differs from the
\* sourceView of the line, the path rendered goes through the projections of
\* the 101 samples taken evenly along the line in its source space, in their
\* order, and is never the straight segment between the two projected
\* endpoints; the globe and the 2D maps build the same sequence of samples.
C8_PathFollowsSamples ==
  (canvas.what = "line" /\ viewProjection(canvas.view) # canvas.line.sourceView) =>
    /\ canvas.points = sourceSamples(canvas.line)
    /\ Len(canvas.path) = 101
    /\ \A k \in 1 .. 101 : canvas.path[k].k = k

\* C9: a line drawn on a 2D map is rendered in that same view as one straight
\* segment between its two projected endpoints: no samples in between, and no
\* new sub-path at the second endpoint however far it is from the first.
C9_SameViewSegment ==
  (/\ canvas.what = "line"
   /\ canvas.view \in {"mercator", "azimuthal"}
   /\ canvas.line.sourceView = canvas.view) =>
    /\ canvas.points = <<canvas.line.start, canvas.line.end>>
    /\ canvas.xs = <<project(canvas.view, canvas.line.start),
                     project(canvas.view, canvas.line.end)>>
    /\ canvas.path = <<[op |-> "moveTo", k |-> 1], [op |-> "lineTo", k |-> 2]>>

\* a line drawn on the Mercator map from longitude 170 to longitude -170 has
\* been drawn there: its endpoints are more than half the width apart
C9_Witness ==
  /\ canvas.what = "line"
  /\ canvas.view = "mercator"
  /\ canvas.line.sourceView = "mercator"
  /\ canvas.line.start.lon = 170 /\ canvas.line.end.lon = -170
  /\ 2 * Abs(canvas.xs[2].x - canvas.xs[1].x) > Width
  /\ Len(canvas.path) = 2

\* a sample the drawing of canvas.what draws
isDrawable(p) ==
  /\ p # null
  /\ (canvas.what = "line" => p.kind = "finite")

\* samples i < j are drawable, with no drawable sample between them
consecutiveDrawable(i, j) ==
  /\ i < j
  /\ isDrawable(canvas.xs[i])
  /\ isDrawable(canvas.xs[j])
  /\ \A m \in (i + 1) .. (j - 1) : ~isDrawable(canvas.xs[m])

\* the projected x of samples i and j differ by more than half the width
farApart(i, j) ==
  /\ canvas.xs[i].kind # "nan"
  /\ canvas.xs[j].kind # "nan"
  /\ 2 * Abs(canvas.xs[j].x - canvas.xs[i].x) > Width

\* C10: in the path of a reprojected line or of the terminator on a 2D map,
\* whenever two consecutive drawable samples differ in projected x by more
\* than half the width of the canvas, the second one starts a new sub-path
\* (moveTo) and no segment (lineTo) leads to it.
C10_WrapStartsSubPath ==
  \A i \in 1 .. Len(canvas.xs) : \A j \in 1 .. Len(canvas.xs) :
    (consecutiveDrawable(i, j) /\ farApart(i, j)) =>
      /\ \E n \in 1 .. Len(canvas.path) :
           canvas.path[n] = [op |-> "moveTo", k |-> j]
      /\ \A n \in 1 .. Len(canvas.path) :
           canvas.path[n] # [op |-> "lineTo", k |-> j]

\* the terminator has been drawn through a point at the left edge, a point
\* with y infinite at the right edge, and a point at the left edge again
C10_Witness ==
  /\ canvas.what = "terminator"
  /\ Len(canvas.xs) = 3
  /\ consecutiveDrawable(1, 2) /\ farApart(1, 2)
  /\ consecutiveDrawable(2, 3) /\ farApart(2, 3)
  /\ canvas.xs[2].kind = "infiniteY"
  /\ Len(canvas.path) = 3

----------------------------------------------------------------------------
(* The utilities of solarCalculations.ts, evaluated on their own *)

\* what an evaluation leaves alone
storeVars == <<drawVars, timeVars, showSun, views, animationSpeed,
               isAnimating, appVars, clocks, canvas, env, lastOp, lastArg,
               tickVars>>

\* the store as created in a browser of any of the zones
InitCalc == InitStoreIn(Zones) /\ InitApp

\* AXIAL_TILT in hundredths of a degree
AxialTiltCenti == 2350

\* calculateSubsolarPoint, const dayOfYear
subsolarDayOfYear(zone, date) ==
  LET start == localYearStart(zone, getFullYear(zone, date))
      diff  == getTimeDiff(date, start)
  IN  diff \div MinutesPerDay

\* calculateSubsolarPoint, const hours: getUTCHours() * 60 + getUTCMinutes()
subsolarHours(date) == date.minutes % MinutesPerDay

\* calculateSubsolarPoint: lat in hundredths of a degree, lon in quarter
\* degrees (the sun moves a quarter of a degree per minute)
calculateSubsolarPoint(zone, date) ==
  LET day   == subsolarDayOfYear(zone, date)
      \* ((2 * Math.PI) / 365) * (dayOfYear - 81), to the nearest half degree
      angle == (2 * 720 * (day - 81) + DaysPerYear) \div (2 * DaysPerYear)
      hours == subsolarHours(date)
  IN  [lat |-> (AxialTiltCenti * sinHalfDeg(angle)) \div Scale,
       lon |-> 0 - (hours - 12 * MinutesPerHour)]

\* hours and days at which the sun is looked up: every day at the hours
\* around midnight, noon and the zone offsets, and every quarter hour of
\* the days around the turn of the year, the equinox and the solstice
EdgeHours == {0, 1, 19, 20, 47, 48, 76, 92, 95}
EdgeDays  == {1, 2, 81, 172, 364, 365}
CalcClock == ((1 .. DaysPerYear) \X EdgeHours) \cup (EdgeDays \X (0 .. DayUnits - 1))

\* a view looks up the sun for the instant computeDateTime(day, hour)
evalSubsolarPoint(day, hour) ==
  LET date == computeDateTime(day, hour, env.year)
  IN  /\ calc = noCalc
      /\ calc' = [op |-> "calculateSubsolarPoint",
                  dayOfYear |-> day, hourOfDay |-> hour, date |-> date,
                  day |-> subsolarDayOfYear(env.zone, date),
                  hours |-> subsolarHours(date),
                  result |-> calculateSubsolarPoint(env.zone, date)]
      /\ UNCHANGED storeVars

\* getSeason of solarCalculations.ts with the upper limits included
getSeasonInclusive(day) ==
  IF day >= 80 /\ day <= 172 THEN "Printemps"
  ELSE IF day >= 172 /\ day <= 266 THEN "Ete"
  ELSE IF day >= 266 /\ day <= 355 THEN "Automne"
  ELSE "Hiver"

\* getSeason of solarCalculations.ts ("Ete" stands for 'Été')
getSeason(day) ==
  IF day >= 80 /\ day < 172 THEN "Printemps"
  ELSE IF day >= 172 /\ day < 266 THEN "Ete"
  ELSE IF day >= 266 /\ day < 355 THEN "Automne"
  ELSE "Hiver"

\* getSeason of Annotations in SunRaysView
annotationsGetSeason(day) ==
  IF day >= 80 /\ day < 172 THEN [name |-> "Printemps", emoji |-> "blossom"]
  ELSE IF day >= 172 /\ day < 266 THEN [name |-> "Ete", emoji |-> "sun"]
  ELSE IF day >= 266 /\ day < 355 THEN [name |-> "Automne", emoji |-> "leaf"]
  ELSE [name |-> "Hiver", emoji |-> "snowflake"]

\* getSeason of InfoPanel in SunRaysView: the emoji, a space and the name
infoPanelGetSeason(day) ==
  IF day >= 80 /\ day < 172 THEN <<"blossom", " ", "Printemps">>
  ELSE IF day >= 172 /\ day < 266 THEN <<"sun", " ", "Ete">>
  ELSE IF day >= 266 /\ day < 355 THEN <<"leaf", " ", "Automne">>
  ELSE <<"snowflake", " ", "Hiver">>

\* the solar-system view and the sun-rays view label the season of a day
evalSeason(day) ==
  /\ calc = noCalc
  /\ calc' = [op |-> "getSeason", dayOfYear |-> day,
              season |-> getSeason(day),
              annotations |-> annotationsGetSeason(day),
              infoPanel |-> infoPanelGetSeason(day)]
  /\ UNCHANGED storeVars

\* Orbit of the Earth.  Angles of the orbit are whole numbers of 1/100000
\* degree, eccentricities are scaled by 10^7, distances are in 1000 km.
AngleUnit == 100000
EccentricityScale == 10000000
PerihelionDistance == 1471
AphelionDistance == 1521
DistancePerihelionDay == 3
OrbitPerihelionDay == 3
OrbitEccentricity == 167000
KeplerIterations == 10

\* ECCENTRICITY of calculateEarthSunDistance
DistanceEccentricity ==
  ((AphelionDistance - PerihelionDistance) * EccentricityScale)
    \div (AphelionDistance + PerihelionDistance)

\* Math.sin of an angle, scaled by Scale: SinTable between its half degrees
sinAngle(a) ==
  LET half == AngleUnit \div 2
      k    == a \div half
      s0   == sinHalfDeg(k)
      s1   == sinHalfDeg(k + 1)
  IN  s0 + ((s1 - s0) * (a % half)) \div half

\* Math.cos of an angle, scaled by Scale
cosAngle(a) == sinAngle(a + 90 * AngleUnit)

\* an eccentricity as an angle: e * (180 / Math.PI)
eccentricityAngle(e) == ((e \div 10) * 57296) \div Scale

\* ((dayOfYear - PERIHELION_DAY) / 365.25) * 2 * Math.PI
meanAnomaly(day, perihelionDay) ==
  (day - perihelionDay) * 98562 + ((day - perihelionDay) * 628) \div 1000

RECURSIVE eccentricAnomaly(_, _, _)
\* for (let i = 0; i < n; i++) E = M + ECCENTRICITY * Math.sin(E)
eccentricAnomaly(M, e, n) ==
  IF n = 0 THEN M
  ELSE M + (eccentricityAngle(e) * sinAngle(eccentricAnomaly(M, e, n - 1)))
             \div Scale

\* 2 * Math.atan2(sqrt(1 + e) * sin(E / 2), sqrt(1 - e) * cos(E / 2)), which
\* is E + 2 * atan(b * sin(E) / (1 - b * cos(E))) with
\* b = e / (1 + sqrt(1 - e * e)); 2 * b is e * (1 + e * e / 4) and the
\* arctangent of so small a number is the number, to 1/100000 degree
trueAnomaly(E, e) ==
  LET e4      == e \div 1000
      twoBeta == eccentricityAngle(e)
                   + (eccentricityAngle(e) * ((e4 * e4) \div 4)) \div 100000000
      beta4   == e4 \div 2
  IN  E + (twoBeta * sinAngle(E)) \div (Scale - (beta4 * cosAngle(E)) \div Scale)

\* calculateOrbitalAngle
calculateOrbitalAngle(day) ==
  LET M == meanAnomaly(day, OrbitPerihelionDay)
  IN  trueAnomaly(eccentricAnomaly(M, OrbitEccentricity, KeplerIterations),
                  OrbitEccentricity)

\* calculateEarthSunDistance, const trueAnomaly
distanceTrueAnomaly(day) ==
  LET M == meanAnomaly(day, DistancePerihelionDay)
  IN  trueAnomaly(eccentricAnomaly(M, DistanceEccentricity, KeplerIterations),
                  DistanceEccentricity)

\* calculateEarthSunDistance
calculateEarthSunDistance(day) ==
  LET semiMajorAxis == ((PerihelionDistance + AphelionDistance) * 100) \div 2
      e4 == DistanceEccentricity \div 1000
  IN  (semiMajorAxis * (Scale - (e4 * e4) \div Scale))
        \div (Scale + (e4 * cosAngle(distanceTrueAnomaly(day))) \div Scale)

\* DynamicEarth places the Earth on its orbit for a day of the year
evalOrbit(day) ==
  /\ calc = noCalc
  /\ calc' = [op |-> "orbit", dayOfYear |-> day,
              angle |-> calculateOrbitalAngle(day),
              trueAnomaly |-> distanceTrueAnomaly(day),
              distance |-> calculateEarthSunDistance(day)]
  /\ UNCHANGED storeVars

\* end points of great circles: two points of the equator, Paris, New York
CirclePoints ==
  { GeoCoordinates(0, 0), GeoCoordinates(0, 90), GeoCoordinates(49, 2),
    GeoCoordinates(41, 0 - 74) }

\* a view samples the great circle from start to end
evalGreatCircle(start, end) ==
  /\ calc = noCalc
  /\ calc' = [op |-> "greatCirclePoints", start |-> start, end |-> end,
              result |-> greatCirclePoints([start |-> start, end |-> end])]
  /\ UNCHANGED storeVars

RECURSIVE sqrtFrom(_, _)
\* the descent of Newton's iteration to the integer square root of n
sqrtFrom(n, x) ==
  LET y == (x + n \div x) \div 2
  IN  IF y >= x THEN x ELSE sqrtFrom(n, y)

\* Math.sqrt, rounded down
sqrt(n) == IF n = 0 THEN 0 ELSE sqrtFrom(n, n)

\* Math.atan2(y, x) in degrees, to the nearest degree
atan2(y, x) ==
  LET a == CHOOSE k \in 0 .. 90 :
             /\ k = 0
                  \/ Abs(y) * cosHalfDeg(2 * k - 1)
                       - Abs(x) * sinHalfDeg(2 * k - 1) >= 0
             /\ k = 90
                  \/ Abs(y) * cosHalfDeg(2 * k + 1)
                       - Abs(x) * sinHalfDeg(2 * k + 1) < 0
  IN  IF x = 0 /\ y = 0 THEN 0
      ELSE IF x >= 0 THEN (IF y >= 0 THEN a ELSE 0 - a)
      ELSE (IF y >= 0 THEN 180 - a ELSE a - 180)

\* xy2DToLatLon of FlatEarth2DView without its test of the radius
xy2DToLatLonUnbounded(x, y) ==
  LET center == BaseSize \div 2
      dx == x - center
      dy == center - y
      r10 == sqrt((dx * dx + dy * dy) * 100)
  IN  GeoCoordinates(90 - (r10 * 180 + 5 * EarthRadiusPx)
                            \div (10 * EarthRadiusPx),
                     atan2(dx, dy))

\* xy2DToLatLon of FlatEarth2DView, for whole pixels: r > earthRadiusPx is
\* decided on the squares, r is kept to 1/10 pixel, lat and lon are rounded
\* to the nearest degree
xy2DToLatLon(x, y) ==
  LET center == BaseSize \div 2
      dx == x - center
      dy == center - y
      r10 == sqrt((dx * dx + dy * dy) * 100)
  IN  IF dx * dx + dy * dy > EarthRadiusPx * EarthRadiusPx THEN null
      ELSE GeoCoordinates(90 - (r10 * 180 + 5 * EarthRadiusPx)
                                 \div (10 * EarthRadiusPx),
                          atan2(dx, dy))

\* the remainder operator of JavaScript: the sign of the dividend
jsRemainder(a, n) == IF a >= 0 THEN a % n ELSE 0 - ((0 - a) % n)

\* what projection.invert of d3 hands back: nothing, NaN, or [lon, lat]
Inverted ==
  { [kind |-> "absent"], [kind |-> "nan"] }
    \cup { [kind |-> "number", lon |-> lon, lat |-> lat] :
             lon \in {0 - 270, 0 - 180, 0, 179, 180, 270},
             lat \in {0 - 91, 0 - 90, 0, 90, 91} }

\* getCoordinatesFromMouse without its test of the latitude
getCoordinatesFromMouseAnyLat(coords) ==
  IF coords.kind = "absent" THEN null
  ELSE IF coords.kind = "nan" THEN null
  ELSE GeoCoordinates(coords.lat, jsRemainder(coords.lon + 180, 360) - 180)

\* getCoordinatesFromMouse of MapProjection, from projection.invert([x, y])
getCoordinatesFromMouse(coords) ==
  IF coords.kind = "absent" THEN null
  ELSE IF coords.kind = "nan" THEN null
  ELSE IF coords.lat < 0 - 90 \/ coords.lat > 90 THEN null
  ELSE GeoCoordinates(coords.lat, jsRemainder(coords.lon + 180, 360) - 180)

\* pixels of the flat-earth map under the mouse, also when zoomed out
FlatPixels == {0 - 100, 0, 50, 51, 152, 153, 400, 401, 647, 648, 750, 751, 900}

\* the mouse is on the flat-earth map at (x, y)
evalFlatInverse(x, y) ==
  /\ calc = noCalc
  /\ calc' = [op |-> "xy2DToLatLon", x |-> x, y |-> y,
              result |-> xy2DToLatLon(x, y)]
  /\ UNCHANGED storeVars

\* the mouse is on a 2D map where the projection inverts to coords
evalMapInverse(coords) ==
  /\ calc = noCalc
  /\ calc' = [op |-> "getCoordinatesFromMouse", inverted |-> coords,
              result |-> getCoordinatesFromMouse(coords)]
  /\ UNCHANGED storeVars

\* Points of space: x, y and z are scaled by Scale.  At the poles
\* Math.cos(latRad) is not 0 but 6.1e-17; tiny tells that x and z stand in
\* that unit, next to which the square of y is the square of the radius.

\* Math.asin of a sine scaled by Scale, in degrees, to the nearest degree
asin(sine) ==
  LET a == CHOOSE k \in 0 .. 90 :
             /\ (k = 0 \/ Abs(sine) >= sinHalfDeg(2 * k - 1))
             /\ (k = 90 \/ Abs(sine) < sinHalfDeg(2 * k + 1))
  IN  IF sine >= 0 THEN a ELSE 0 - a

\* cartesianToLatLon without the negation of the longitude
cartesianToLatLonSameSign(p) ==
  LET radius == IF p.tiny THEN Abs(p.y)
                ELSE sqrt(p.x * p.x + p.y * p.y + p.z * p.z)
      sine   == (p.y * Scale) \div radius
  IN  GeoCoordinates(asin(sine), atan2(p.z, p.x))

\* latLonToCartesian
latLonToCartesian(lat, lon, radius) ==
  LET tiny   == Abs(lat) = 90
      cosLat == IF tiny THEN Scale ELSE cosHalfDeg(2 * lat)
      lonRad == 0 - lon
  IN  [x |-> radius * ((cosLat * cosHalfDeg(2 * lonRad)) \div Scale),
       y |-> radius * sinHalfDeg(2 * lat),
       z |-> radius * ((cosLat * sinHalfDeg(2 * lonRad)) \div Scale),
       tiny |-> tiny]

\* cartesianToLatLon, lat and lon to the nearest degree
cartesianToLatLon(p) ==
  LET radius == IF p.tiny THEN Abs(p.y)
                ELSE sqrt(p.x * p.x + p.y * p.y + p.z * p.z)
      sine   == (p.y * Scale) \div radius
  IN  GeoCoordinates(asin(sine), 0 - atan2(p.z, p.x))

\* coordinates and radii that are carried to space and back: the poles,
\* the equator and latitudes between, longitudes all around from -180
Latitudes  == {0 - 90, 0 - 80, 0 - 45, 0, 30, 60, 80, 90}
Longitudes == {15 * k - 180 : k \in 0 .. 23} \cup {0 - 179, 1, 37, 179}
Radii == {1, 2, 4}

\* a coordinate is put on the sphere and the point is read back
evalRoundTrip(lat, lon, radius) ==
  /\ calc = noCalc
  /\ calc' = [op |-> "cartesianToLatLon", lat |-> lat, lon |-> lon,
              radius |-> radius,
              point |-> latLonToCartesian(lat, lon, radius),
              result |-> cartesianToLatLon(latLonToCartesian(lat, lon, radius))]
  /\ UNCHANGED storeVars

\* end points of measured distances: the poles, the equator and latitudes
\* between, every 60 degrees of longitude from -180
DistancePoints ==
  { GeoCoordinates(lat, lon) :
      lat \in {0 - 90, 0 - 60, 0, 30, 60, 90},
      lon \in {0 - 180, 0 - 120, 0 - 60, 0, 60, 120} }

\* the distance between two points is measured both ways
evalHaversine(a, b) ==
  /\ calc = noCalc
  /\ calc' = [op |-> "haversineDistance", a |-> a, b |-> b,
              ab |-> haversineDistance(a, b), ba |-> haversineDistance(b, a)]
  /\ UNCHANGED storeVars

\* deltaSeconds * animationSpeed as a double: the exact number of quarter
\* hours of the model, or a double of 2^58 hours and more, where the
\* doubles are ulp = 64 hours and more apart (a finite deltaSeconds such as
\* 3e17 at 1 hour per second); powers of two are left out
HoursToAdd ==
  { [large |-> FALSE, units |-> deltaSeconds * speed] :
      deltaSeconds \in Deltas, speed \in Speeds }
    \cup { [large |-> TRUE, ulp |-> ulp] : ulp \in {64, 4096} }

\* newHour -= 24 on a large double: the exact difference lies 24 below
\* newHour and ulp - 24 above the next double below, so it is rounded back
\* to newHour as soon as 24 is less than half of ulp
subtractDay(newHour) ==
  IF 2 * HoursPerDay < newHour.ulp THEN newHour
  ELSE [large |-> TRUE, ulp |-> newHour.ulp, below |-> TRUE]

\* advanceTime from hour and day with hoursToAdd = deltaSeconds *
\* animationSpeed: what it hands to set, if its first loop is ever left
advanceTimeOutcome(hour, day, hoursToAdd) ==
  IF hoursToAdd.large
    THEN IF subtractDay(hoursToAdd) = hoursToAdd
           THEN [returns |-> FALSE]
           ELSE [returns |-> TRUE, large |-> TRUE]
    ELSE LET r == advanceTimeResult(hour, day, 1, hoursToAdd.units)
         IN  [returns |-> TRUE, large |-> FALSE,
              hourOfDay |-> r[1], dayOfYear |-> r[2]]

\* a frame driver calls advanceTime on the clock (day, hour)
evalAdvanceTime(day, hour, hoursToAdd) ==
  /\ calc = noCalc
  /\ calc' = [op |-> "advanceTime", day |-> day, hour |-> hour,
              hoursToAdd |-> hoursToAdd,
              result |-> advanceTimeOutcome(hour, day, hoursToAdd)]
  /\ UNCHANGED storeVars

\* zoom of a Mercator map, in thousandths: the wheel multiplies it by 0.9
\* or 1.1 and clamps it to [0.5, 10]
Zooms == {500, 550, 1000, 1100, 10000}

\* geoMercator().scale(width / (2 * Math.PI) * zoom).translate([width / 2,
\* ..]) at a zoom in thousandths: projected[0] of a longitude
mercatorXZoom(lon, zoom) == Width \div 2 + (zoom * Width * lon) \div 360000

\* longitudes of consecutive samples of a reprojected line, near the
\* meridian of Greenwich and near the seam
SampleLons == {0 - 179, 0 - 175, 0 - 170, 0 - 1, 0, 1, 170, 175, 179}

\* the loop of drawLines of a Mercator map at a zoom over two consecutive
\* samples of a line of another view
evalDrawLines(zoom, lons) ==
  LET xs == [k \in 1 .. Len(lons) |->
               projectedPoint(mercatorXZoom(lons[k], zoom), "finite")]
  IN  /\ calc = noCalc
      /\ calc' = [op |-> "drawLines", zoom |-> zoom, lons |-> lons,
                  xs |-> xs, path |-> strokePath(xs, FALSE, Width)]
      /\ UNCHANGED storeVars

\* Radius of the flat disc (includes ice wall)
EARTH_RADIUS == 3

\* the latitude rings of the flat-earth views: 30 and 60 degrees north, and
\* the equator, which is drawn apart
RingLatitudes == {30, 60}
Rings ==
  { [lat |-> lat, equator |-> FALSE] : lat \in RingLatitudes }
    \cup { [lat |-> 0, equator |-> TRUE] }

\* The radii of the rings are kept as 180 times their length, in the unit of
\* the view (scene units in 3D, pixels in 2D).

\* FlatEarthDisc: r = ((90 - lat) / 90) * EARTH_RADIUS, and for the equator
\* r = EARTH_RADIUS / 2
ringRadius3D(ring) ==
  IF ring.equator THEN 90 * EARTH_RADIUS
  ELSE 2 * (90 - ring.lat) * EARTH_RADIUS

\* FlatEarth2DView: r = ((90 - lat) / 90) * (earthRadiusPx / 2), and for the
\* equator r = earthRadiusPx / 2
ringRadius2D(ring) ==
  IF ring.equator THEN 90 * EarthRadiusPx
  ELSE (90 - ring.lat) * EarthRadiusPx

\* a flat-earth view draws one of its latitude rings
evalRing(view, ring) ==
  /\ calc = noCalc
  /\ calc' = [op |-> "latitudeRing", view |-> view, lat |-> ring.lat,
              discRadius |-> IF view = "3d" THEN EARTH_RADIUS
                             ELSE EarthRadiusPx,
              radius |-> IF view = "3d" THEN ringRadius3D(ring)
                         ELSE ringRadius2D(ring)]
  /\ UNCHANGED storeVars

NextCalc ==
  \/ \E c \in CalcClock : evalSubsolarPoint(c[1], c[2])
  \/ \E day \in 1 .. DaysPerYear : evalSeason(day)
  \/ \E day \in 1 .. DaysPerYear : evalOrbit(day)
  \/ \E start \in CirclePoints, end \in CirclePoints :
       evalGreatCircle(start, end)
  \/ \E x \in FlatPixels, y \in FlatPixels : evalFlatInverse(x, y)
  \/ \E coords \in Inverted : evalMapInverse(coords)
  \/ \E lat \in Latitudes, lon \in Longitudes, radius \in Radii :
       evalRoundTrip(lat, lon, radius)
  \/ \E a \in DistancePoints, b \in DistancePoints : evalHaversine(a, b)
  \/ \E day \in EdgeDays, hour \in EdgeHours, hoursToAdd \in HoursToAdd :
       evalAdvanceTime(day, hour, hoursToAdd)
  \/ \E zoom \in Zooms, a \in SampleLons, b \in SampleLons :
       evalDrawLines(zoom, <<a, b>>)
  \/ \E view \in {"3d", "2d"}, ring \in Rings : evalRing(view, ring)

SpecCalc == InitCalc /\ [][NextCalc]_vars

\* C12: for every dayOfYear in 1..365 and hourOfDay in [0,24), the day of the
\* year and the UTC time of day that calculateSubsolarPoint extracts from
\* computeDateTime(dayOfYear, hourOfDay) are dayOfYear and hourOfDay, in
\* every time zone and in winter and summer time.
C12_SubsolarReadsClock ==
  calc.op = "calculateSubsolarPoint" =>
    /\ calc.day = calc.dayOfYear
    /\ calc.hours = calc.hourOfDay * MinutesPerStep

\* C15: for every hour in [0,24) the longitude of the subsolar point is
\* -15 * (hour - 12) degrees brought into [-180,180): 0 at noon, 15 degrees
\* further west each hour, never outside [-180,180).  In quarter degrees.
C15_SubsolarLongitude ==
  calc.op = "calculateSubsolarPoint" =>
    LET lon == 0 - 15 * (calc.hourOfDay - 12 * StepsPerHour)
    IN  /\ calc.result.lon = Mod(lon + 720, 1440) - 720
        /\ calc.result.lon >= 0 - 720
        /\ calc.result.lon < 720

\* C13: for every dayOfYear in 1..365 the season is spring for 80..171,
\* summer for 172..265, autumn for 266..354 and winter otherwise, and
\* getSeason and the two season functions of the sun-rays view agree.
C13_Seasons ==
  calc.op = "getSeason" =>
    LET day == calc.dayOfYear
    IN  /\ calc.season = CASE day \in 80 .. 171  -> "Printemps"
                           [] day \in 172 .. 265 -> "Ete"
                           [] day \in 266 .. 354 -> "Automne"
                           [] OTHER              -> "Hiver"
        /\ calc.annotations.name = calc.season
        /\ calc.infoPanel[3] = calc.season

\* the last day of spring has been labelled
C13_Witness ==
  /\ calc.op = "getSeason"
  /\ calc.dayOfYear = 171
  /\ calc.season = "Printemps"

\* C14: for every dayOfYear, calculateEarthSunDistance computes its distance
\* from the true anomaly that calculateOrbitalAngle returns for that day
\* (same perihelion day, same eccentricity, same number of iterations).
C14_SameTrueAnomaly ==
  calc.op = "orbit" =>
    /\ calc.trueAnomaly = calc.angle
    /\ DistancePerihelionDay = OrbitPerihelionDay
    /\ DistanceEccentricity = OrbitEccentricity

\* C16: greatCirclePoints(start, end, n) returns exactly n + 1 points, and
\* with start equal to end these are n + 1 copies of start, none of them NaN.
C16_GreatCircleOfOnePoint ==
  calc.op = "greatCirclePoints" =>
    /\ Len(calc.result) = NumPoints + 1
    /\ calc.start = calc.end =>
         \A k \in 1 .. NumPoints + 1 :
           calc.result[k] # nanPoint /\ calc.result[k] = calc.start

\* the point (x, y) of the flat-earth map lies outside the disc
outsideDisc(x, y) ==
  (x - BaseSize \div 2) * (x - BaseSize \div 2)
    + (BaseSize \div 2 - y) * (BaseSize \div 2 - y)
    > EarthRadiusPx * EarthRadiusPx

\* C17: xy2DToLatLon returns no coordinate for every point further from the
\* centre of the disc than its radius, and a coordinate with latitude in
\* [-90,90] for every point inside or on the disc; getCoordinatesFromMouse
\* returns no coordinate when the inverse of the projection is absent, NaN
\* or has a latitude outside [-90,90].
C17_InversesReject ==
  /\ calc.op = "xy2DToLatLon" =>
       IF outsideDisc(calc.x, calc.y) THEN calc.result = null
       ELSE /\ calc.result # null
            /\ calc.result.lat >= 0 - 90
            /\ calc.result.lat <= 90
  /\ (calc.op = "getCoordinatesFromMouse"
        /\ (calc.inverted.kind \in {"absent", "nan"}
              \/ calc.inverted.lat < 0 - 90 \/ calc.inverted.lat > 90))
       => calc.result = null

\* a point beyond the rim of the disc was looked up and gave no coordinate
C17_Witness ==
  /\ calc.op = "xy2DToLatLon"
  /\ outsideDisc(calc.x, calc.y)
  /\ calc.x = 751 /\ calc.y = 400
  /\ calc.result = null

\* C18: cartesianToLatLon(latLonToCartesian(lat, lon, r)) is (lat, lon), to
\* the degree, for every lat in [-90,90], lon in [-180,180) and r > 0; both
\* functions negate the longitude.
C18_CartesianRoundTrip ==
  calc.op = "cartesianToLatLon" =>
    calc.result = GeoCoordinates(calc.lat, calc.lon)

\* a point of the date line off the equator went to space and came back
C18_Witness ==
  /\ calc.op = "cartesianToLatLon"
  /\ calc.lat = 0 - 45 /\ calc.lon = 0 - 180 /\ calc.radius = 2
  /\ calc.point.x < 0
  /\ calc.result = GeoCoordinates(0 - 45, 0 - 180)

\* two coordinates name the same point of the sphere: they are equal, or
\* both name the same pole
samePoint(a, b) == a = b \/ (a.lat = b.lat /\ Abs(a.lat) = 90)

\* C19: haversineDistance(a, b) is haversineDistance(b, a) for all
\* coordinates a and b, and it is zero exactly when a and b are the same
\* point.
C19_DistanceSymmetric ==
  calc.op = "haversineDistance" =>
    /\ calc.ab = calc.ba
    /\ calc.ab = 0 <=> samePoint(calc.a, calc.b)

\* two different points at different latitudes were measured both ways
C19_Witness ==
  /\ calc.op = "haversineDistance"
  /\ calc.a = GeoCoordinates(0, 0)
  /\ calc.b = GeoCoordinates(60, 60)
  /\ calc.ab = calc.ba
  /\ calc.ab > 0

\* C20: when the list holds fewer than 10 lines, addLine gives the new line
\* a colour different from the colour of every line in the list, whatever
\* additions and removals came before.
C20_NewColour ==
  [][(lastOp' = "addLine" /\ Len(lines') = Len(lines) + 1
        /\ Len(lines) < Len(LINE_COLORS))
       => \A k \in 1 .. Len(lines) :
            lines'[Len(lines')].color # lines[k].color]_vars

----------------------------------------------------------------------------
(* Drawing: the click handlers of the views *)

GLOBE_RADIUS == 2

\* what the raycaster of the globe finds under the mouse: nothing, or a
\* point of the sphere
GlobeHits ==
  {null} \cup { latLonToCartesian(49, 2, GLOBE_RADIUS),
                latLonToCartesian(0 - 34, 151, GLOBE_RADIUS) }

\* what projection.invert hands back under the mouse on a 2D map
ClickInverted ==
  { [kind |-> "absent"], [kind |-> "nan"],
    [kind |-> "number", lon |-> 0, lat |-> 91],
    [kind |-> "number", lon |-> 170, lat |-> 60],
    [kind |-> "number", lon |-> 190, lat |-> 60] }

\* pixels of the flat-earth map under the mouse: the pole, a point of the
\* equator, the rim and a corner outside the disc
ClickPixels == { <<400, 400>>, <<400, 575>>, <<751, 400>>, <<0, 0>> }

\* the colours the handlers of the globe and of the maps draw from
ClickColors == {"#06b6d4", "#8b5cf6", "#ec4899", "#f59e0b", "#10b981"}

\* generateId() as seen by the click handlers, which never read an id
ClickIds == {"k3x9q1a"}

\* a handler that returns before it calls the store
handlerReturns ==
  /\ lastOp' = "handleClick"
  /\ lastArg' = 0
  /\ UNCHANGED <<drawVars, timeVars, showSun, envVars, views, animationSpeed,
                 isAnimating, appVars, canvas, tickVars>>

\* setSelectedPoint(coords); setActiveDrawingView(view)
selectPoint(coords, view) ==
  /\ selectedPoint' = coords
  /\ activeDrawingView' = view
  /\ lastOp' = "setActiveDrawingView"
  /\ lastArg' = 0
  /\ UNCHANGED <<hoverCoords, drawingMode, lines, timeVars, showSun, envVars,
                 views, animationSpeed, isAnimating, appVars, canvas,
                 tickVars>>

\* setSelectedPoint(coords)
setSelectedPoint(coords) ==
  /\ selectedPoint' = coords
  /\ lastOp' = "setSelectedPoint"
  /\ lastArg' = 0
  /\ UNCHANGED <<hoverCoords, activeDrawingView, drawingMode, lines, timeVars,
                 showSun, envVars, views, animationSpeed, isAnimating,
                 appVars, canvas, tickVars>>

\* MouseHandler.handleClick of Globe3D; hit is the intersection of the ray
\* with the sphere
clickGlobe(hit, color, id) ==
  /\ globeMounted(page, views)
  /\ IF drawingMode # "drawing" THEN handlerReturns
     ELSE IF hit = null THEN handlerReturns
     ELSE IF selectedPoint = null \/ activeDrawingView # "globe"
          THEN selectPoint(cartesianToLatLon(hit), "globe")
          ELSE addLine([start |-> selectedPoint,
                        end |-> cartesianToLatLon(hit),
                        sourceView |-> "globe", color |-> color], id)

\* handleClick of MapProjection, projectionType is view; inverted is what
\* projection.invert gives for the pixel.  isDragging is true only between a
\* mousedown and a mouseup in pan mode, where the handler has returned
clickMap(view, inverted, color, id) ==
  /\ page = "main"
  /\ views[view]
  /\ IF drawingMode # "drawing" THEN handlerReturns
     ELSE IF getCoordinatesFromMouse(inverted) = null THEN handlerReturns
     ELSE IF selectedPoint = null \/ activeDrawingView # view
          THEN selectPoint(getCoordinatesFromMouse(inverted), view)
          ELSE addLine([start |-> selectedPoint,
                        end |-> getCoordinatesFromMouse(inverted),
                        sourceView |-> view, color |-> color], id)

\* the 2D map of the flat-earth page is rendered
flatMapMounted == page = "flat" /\ viewMode \in {"2d", "both"}

\* handleClick of FlatEarth2DView without its test of the drawing mode
clickFlatAnyMode(x, y, id) ==
  /\ flatMapMounted
  /\ IF xy2DToLatLon(x, y) = null THEN handlerReturns
     ELSE IF selectedPoint = null
          THEN setSelectedPoint(xy2DToLatLon(x, y))
          ELSE addLine([start |-> selectedPoint, end |-> xy2DToLatLon(x, y),
                        sourceView |-> "azimuthal", color |-> "#06b6d4"], id)

\* handleClick of FlatEarth2DView; (x, y) is what getMouseCoords returns
clickFlat(x, y, id) ==
  /\ flatMapMounted
  /\ IF drawingMode # "drawing" THEN handlerReturns
     ELSE IF xy2DToLatLon(x, y) = null THEN handlerReturns
     ELSE IF selectedPoint = null
          THEN setSelectedPoint(xy2DToLatLon(x, y))
          ELSE addLine([start |-> selectedPoint, end |-> xy2DToLatLon(x, y),
                        sourceView |-> "azimuthal", color |-> "#06b6d4"], id)

MapViews == {"mercator", "azimuthal"}
Pages == {"main", "flat"}

\* the lines drawn by clicks before the list is cleared
MaxDrawn == 1
drawnWithinBound == Len(lines') <= MaxDrawn

\* the two pages with their mode buttons, the clicks on their views and the
\* button that clears the list
NextDraw ==
  \/ \E hit \in GlobeHits, color \in ClickColors, id \in ClickIds :
       clickGlobe(hit, color, id) /\ drawnWithinBound
  \/ \E view \in MapViews, inverted \in ClickInverted,
        color \in ClickColors, id \in ClickIds :
       clickMap(view, inverted, color, id) /\ drawnWithinBound
  \/ \E px \in ClickPixels, id \in ClickIds :
       clickFlat(px[1], px[2], id) /\ drawnWithinBound
  \/ \E mode \in DrawingModes : setDrawingMode(mode)
  \/ \E pg \in Pages : navigate(pg)
  \/ clearLines

SpecDraw == Init /\ [][NextDraw]_vars

\* the views a click can land on, and the sourceView each of them gives its
\* lines
ClickViews == {"globe", "mercator", "azimuthal", "flatEarth2D"}
sourceViewOf(view) == IF view = "flatEarth2D" THEN "azimuthal" ELSE view

\* the coordinates the clicks of the model can pick
ClickCoords ==
  ({cartesianToLatLon(hit) : hit \in GlobeHits \ {null}}
     \cup {getCoordinatesFromMouse(inverted) : inverted \in ClickInverted}
     \cup {xy2DToLatLon(px[1], px[2]) : px \in ClickPixels}) \ {null}

\* the step is a click on view at a position whose coordinate is coords
clickOn(view, coords) ==
  \/ /\ view = "globe"
     /\ \E hit \in GlobeHits \ {null}, color \in ClickColors, id \in ClickIds :
          /\ coords = cartesianToLatLon(hit)
          /\ clickGlobe(hit, color, id)
  \/ /\ view \in MapViews
     /\ \E inverted \in ClickInverted, color \in ClickColors, id \in ClickIds :
          /\ coords = getCoordinatesFromMouse(inverted)
          /\ clickMap(view, inverted, color, id)
  \/ /\ view = "flatEarth2D"
     /\ \E px \in ClickPixels, id \in ClickIds :
          /\ coords = xy2DToLatLon(px[1], px[2])
          /\ clickFlat(px[1], px[2], id)

\* the step appends one line from start to end with the given sourceView and
\* clears the pending point
lineAppended(start, end, view) ==
  /\ Len(lines') = Len(lines) + 1
  /\ SubSeq(lines', 1, Len(lines)) = lines
  /\ lines'[Len(lines')].start = start
  /\ lines'[Len(lines')].end = end
  /\ lines'[Len(lines')].sourceView = view
  /\ selectedPoint' = null
  /\ activeDrawingView' = nullView

\* C21: in drawing mode a first valid click on a view records the clicked
\* coordinate as selectedPoint with that view as activeDrawingView; the next
\* valid click on the same view appends exactly one line from the first
\* point to the second with that view as sourceView and clears selectedPoint
\* and activeDrawingView.
C21_TwoClicks ==
  [][\A view \in ClickViews, coords \in ClickCoords :
       (drawingMode = "drawing" /\ clickOn(view, coords)) =>
         /\ (selectedPoint = null) =>
              /\ selectedPoint' = coords
              /\ activeDrawingView' = sourceViewOf(view)
              /\ lines' = lines
         /\ (selectedPoint # null /\ activeDrawingView = sourceViewOf(view)) =>
              lineAppended(selectedPoint, coords, sourceViewOf(view))]_vars

\* what a step of a click handler leaves in lastOp: the handler itself when
\* it returned early, else the store action it called last
clickOps == {"handleClick", "setActiveDrawingView", "setSelectedPoint",
             "addLine"}

\* C22: the line list grows only through a click made in drawing mode; in
\* pan mode no click on the globe, the Mercator map, the azimuthal map or
\* the flat-earth 2D map changes lines, selectedPoint or activeDrawingView.
C22_PanClicksChangeNothing ==
  [][/\ (drawingMode = "pan" /\ lastOp' \in clickOps) =>
          UNCHANGED <<lines, selectedPoint, activeDrawingView>>
     /\ (Len(lines') > Len(lines)) =>
          (drawingMode = "drawing" /\ lastOp' = "addLine")]_vars

\* a click was made in pan mode on the flat-earth page while a line drawn
\* before is in the list
C22_Witness ==
  /\ drawingMode = "pan"
  /\ lastOp = "handleClick"
  /\ page = "flat"
  /\ Len(lines) = 1
  /\ selectedPoint = null

\* the coordinates that the clicks of the model pick on a view (the globe,
\* the maps and the flat-earth map are clicked at different places)
coordsOf(view) ==
  IF view = "globe"
    THEN {cartesianToLatLon(hit) : hit \in GlobeHits \ {null}}
  ELSE IF view \in MapViews
    THEN {getCoordinatesFromMouse(inverted) : inverted \in ClickInverted}
           \ {null}
  ELSE {xy2DToLatLon(px[1], px[2]) : px \in ClickPixels} \ {null}

\* C23: both end points of every line of the list were picked by clicks on
\* the view recorded as the line's sourceView; a point pending from a click
\* on one view never becomes the start of a line completed by a click on
\* another view or on the other page.
C23_EndpointsFromSourceView ==
  \A k \in 1 .. Len(lines) :
    \E view \in ClickViews :
      /\ sourceViewOf(view) = lines[k].sourceView
      /\ lines[k].start \in coordsOf(view)
      /\ lines[k].end \in coordsOf(view)

\* projection.invert gave no point of the Earth
noInverse(inverted) ==
  IF inverted.kind # "number" THEN TRUE
  ELSE inverted.lat < 0 - 90 \/ inverted.lat > 90

\* the step is a click at a position without a geographic coordinate: the
\* ray misses the globe, the map has no inverse there, or the pixel is
\* outside the flat-earth disc
invalidClick ==
  \/ \E id \in ClickIds : clickGlobe(null, "#06b6d4", id)
  \/ \E view \in MapViews, inverted \in ClickInverted, id \in ClickIds :
       noInverse(inverted) /\ clickMap(view, inverted, "#06b6d4", id)
  \/ \E px \in ClickPixels, id \in ClickIds :
       outsideDisc(px[1], px[2]) /\ clickFlat(px[1], px[2], id)

\* C24: a click in drawing mode at a position without a valid geographic
\* coordinate leaves selectedPoint, activeDrawingView and the line list
\* unchanged, and the handler returns without calling the store.
C24_InvalidClickIgnored ==
  [][(drawingMode = "drawing" /\ invalidClick) =>
       /\ UNCHANGED <<lines, selectedPoint, activeDrawingView>>
       /\ lastOp' = "handleClick"]_vars

\* with a point pending from the Mercator map, a click was made in drawing
\* mode where the map has no inverse; the point is still pending
C24_Witness ==
  /\ drawingMode = "drawing"
  /\ lastOp = "handleClick"
  /\ page = "main"
  /\ selectedPoint = GeoCoordinates(60, 170)
  /\ activeDrawingView = "mercator"

----------------------------------------------------------------------------
(* The palette: more lines than LINE_COLORS has colours *)

\* the lines added before the list is cleared
MaxPalette == 12

\* the store with a point picked on the globe now and then, and lines added
\* until the colours have come round
NextPalette ==
  \/ \E line \in {l \in LineArgs : l.sourceView # "azimuthal"},
        id \in ClickIds :
       addLine(line, id) /\ Len(lines') <= MaxPalette
  \/ \E hit \in GlobeHits \ {null} :
       selectPoint(cartesianToLatLon(hit), "globe")
  \/ \E mode \in DrawingModes : setDrawingMode(mode)
  \/ clearLines

SpecPalette == Init /\ [][NextPalette]_vars

\* C25: addLine appends exactly one line at the end of the list, with the
\* colour LINE_COLORS[(number of lines before the call) mod 10] whatever
\* colour the caller passed, resets selectedPoint and activeDrawingView to
\* null, and leaves the existing lines, the drawing mode and the clock
\* unchanged.
C25_AddLineFrame ==
  [][lastOp' = "addLine" =>
       /\ Len(lines') = Len(lines) + 1
       /\ SubSeq(lines', 1, Len(lines)) = lines
       /\ lines'[Len(lines')].color
            = LINE_COLORS[(Len(lines) % 10) + 1]
       /\ selectedPoint' = null
       /\ activeDrawingView' = nullView
       /\ UNCHANGED <<drawingMode, hourOfDay, dayOfYear, dateTime>>]_vars

\* the eleventh line, for which the caller passed purple, was added in
\* drawing mode and has the first colour of the palette
C25_Witness ==
  /\ lastOp = "addLine"
  /\ Len(lines) = 11
  /\ lines[11].sourceView = "globe"
  /\ lines[11].color = "#06b6d4"
  /\ lines[1].color = "#06b6d4"
  /\ drawingMode = "drawing"
  /\ selectedPoint = null

\* C26: advanceTime terminates for every finite deltaSeconds and every
\* animationSpeed of the speed slider, and the hourOfDay and dayOfYear it
\* stores are normalized.
C26_AdvanceTimeReturns ==
  calc.op = "advanceTime" =>
    /\ calc.result.returns
    /\ ~calc.result.large
    /\ calc.result.hourOfDay \in 0 .. DayUnits - 1
    /\ calc.result.dayOfYear \in 1 .. DaysPerYear

\* two longitudes on opposite sides of the 180 degree seam: the short way
\* from one to the other crosses it
acrossSeam(a, b) == Abs(a - b) > 180

\* C27: at every zoom of the Mercator map from 0.5 to 10, two consecutive
\* samples of a reprojected path that lie on opposite sides of the 180
\* degree seam are never joined by a segment across the map.
C27_SeamNeverJoined ==
  calc.op = "drawLines" =>
    \A n \in 2 .. Len(calc.lons) :
      acrossSeam(calc.lons[n - 1], calc.lons[n]) => calc.path[n].op = "moveTo"

\* C28: on the flat-earth disc, in 3D and in 2D, every latitude ring drawn
\* (30 and 60 degrees and the equator) lies at the radius (90 - lat) / 180 of
\* the radius of the disc, which puts the North Pole at the centre and the
\* South Pole on the boundary.
C28_RingRadius ==
  calc.op = "latitudeRing" =>
    calc.radius = (90 - calc.lat) * calc.discRadius

----------------------------------------------------------------------------
(* Frames: the deltas that the animation drivers hand to advanceTime *)

\* rendering ticks looked at
MaxFrames == 4

\* the canvas of the driver is mounted
driverMounted(driver) ==
  IF driver = "globe" THEN globeMounted(page, views) ELSE driverRuns(driver)

\* the delta of a driver in a rendering tick that comes `delta` after the
\* tick before: state.clock.elapsedTime - lastTimeRef.current, and for the
\* globe the getDelta() of the clock of its canvas; both are the time since
\* the last frame of the driver
frameDelta(driver, delta) == clocks.since[driver] + delta

\* one rendering tick, `delta` after the one before: every mounted canvas
\* that has a frame to render runs its useFrame callbacks, each with its own
\* delta; the canvases that render no frame let their clocks run on
frameTick(delta) ==
  LET calling == {d \in Drivers : driverCalls(d, frameDelta(d, delta))}
      idle    == {d \in Drivers : driverMounted(d) /\ ~driverRuns(d)}
      call(hd, d) ==
        IF d \in calling
        THEN advanceTimeResult(hd[1], hd[2], animationSpeed,
                               frameDelta(d, delta))
        ELSE hd
      r == call(call(call(call(<<hourOfDay, dayOfYear>>, "globe"),
                          "solarSystem"), "sunRays"), "flatEarth")
      n == Cardinality(calling)
      deltas == [d \in Drivers |->
                   IF d \in calling THEN frameDelta(d, delta) ELSE 0]
  IN  /\ frameCount < MaxFrames
      /\ frameCount' = frameCount + 1
      /\ hourOfDay' = r[1]
      /\ dayOfYear' = r[2]
      /\ dateTime' = IF n = 0 THEN dateTime
                     ELSE computeDateTime(r[2], r[1], env.year)
      /\ globeFrames' = IF globeMounted(page, views) THEN n > 0
                        ELSE globeFrames
      /\ clocks' =
           [since    |-> [d \in Drivers |->
                            IF d \in idle THEN clocks.since[d] + delta
                            ELSE 0],
            paused   |-> [d \in Drivers |->
                            IF d \notin idle THEN 0
                            ELSE IF isAnimating THEN clocks.paused[d]
                            ELSE clocks.paused[d] + delta],
            deltas   |-> deltas,
            pausedIn |-> [d \in Drivers |->
                            IF d \in calling THEN clocks.paused[d] ELSE 0]]
      /\ tickCalls' = n
      /\ tickHours' = animationSpeed
                        * (deltas["globe"] + deltas["solarSystem"]
                             + deltas["sunRays"] + deltas["flatEarth"])
      /\ lastOp' = "frameTick"
      /\ lastArg' = delta
      /\ UNCHANGED <<drawVars, showSun, env, calc, views, animationSpeed,
                     isAnimating, page, viewMode, canvas>>

\* the play button, the globe turned by the user, the views and pages that
\* mount the canvases, and the rendering ticks
NextFrames ==
  \/ toggleAnimation
  \/ orbitGlobe
  \/ \E view \in {"globe", "solarSystem", "sunRays"} :
       toggleViewVisibility(view)
  \/ \E pg \in Pages : navigate(pg)
  \/ \E delta \in TickDeltas : frameTick(delta)

SpecFrames == Init /\ [][NextFrames]_vars

\* C29: when the animation is switched on after a pause, the first
\* advanceTime call of each driver receives only the time since the previous
\* frame of that driver and never the paused interval: no delta handed to
\* advanceTime contains a rendering tick that passed while isAnimating was
\* false.
C29_NoJumpOnResume ==
  lastOp = "frameTick" => \A d \in Drivers : clocks.pausedIn[d] = 0

\* C30: setDrawingMode(mode), for every mode and from every state, sets
\* drawingMode to mode, resets selectedPoint and activeDrawingView to null
\* and leaves the lines and the clock unchanged, so that the click after a
\* change of mode never completes a line from a point pending before it.
C30_SetDrawingModeFrame ==
  [][/\ \A mode \in DrawingModes :
          setDrawingMode(mode) =>
            /\ drawingMode' = mode
            /\ selectedPoint' = null
            /\ activeDrawingView' = nullView
            /\ UNCHANGED <<lines, hourOfDay, dayOfYear, dateTime>>
     /\ (lastOp = "setDrawingMode") => (lastOp' # "addLine")]_vars

\* on the flat-earth page, with a line in the list, the mode was set to
\* pan: no point is pending and the line is still there
C30_Witness ==
  /\ lastOp = "setDrawingMode"
  /\ page = "flat"
  /\ drawingMode = "pan"
  /\ Len(lines) = 1
  /\ selectedPoint = null
  /\ activeDrawingView = nullView

====
